---- MODULE Spec2Model ----
(***************************************************************************)
(* Model of the rule-based validation engine (src/src/validation.py,       *)
(* class DataValidator) and of the severity classifier                     *)
(* (src/src/data_quality.py, analyze_* and generate_report).               *)
(*                                                                         *)
(* A cell of the DataFrame is a record [t, n, s]:                          *)
(*   t = "nan"   a missing value (NaN / None), pd.isna is true             *)
(*   t = "int"   a Python int, n its value                                 *)
(*   t = "float" a finite Python float, n its value in tenths              *)
(*   t = "inf"   the float infinity, n its sign (1 or -1)                  *)
(*   t = "str"   a Python str, s its characters (one-character strings)    *)
(***************************************************************************)
EXTENDS Integers, Sequences, FiniteSets, TLC

\* ------------------------------------------------------------------------
\* Characters and strings
\* ------------------------------------------------------------------------

Digits == <<"0", "1", "2", "3", "4", "5", "6", "7", "8", "9">>

UpperCase == <<"A", "B", "C", "D", "E", "F", "G", "H", "I", "J", "K", "L", "M",
               "N", "O", "P", "Q", "R", "S", "T", "U", "V", "W", "X", "Y", "Z">>

LowerCase == <<"a", "b", "c", "d", "e", "f", "g", "h", "i", "j", "k", "l", "m",
               "n", "o", "p", "q", "r", "s", "t", "u", "v", "w", "x", "y", "z">>

Whitespace == {" ", "\t", "\n", "\r"}

Range(f) == {f[i] : i \in DOMAIN f}

IsDigit(c) == c \in Range(Digits)

IsLetter(c) == c \in Range(UpperCase) \cup Range(LowerCase)

DigitVal(c) == (CHOOSE i \in DOMAIN Digits : Digits[i] = c) - 1

\* str.lower() on one character
LowerChar(c) ==
    IF c \in Range(UpperCase)
    THEN LowerCase[CHOOSE i \in DOMAIN UpperCase : UpperCase[i] = c]
    ELSE c

\* str.lower()
Lower(s) == [i \in 1..Len(s) |-> LowerChar(s[i])]

\* str.strip(): leading and trailing whitespace removed
Strip(s) ==
    LET keep == {i \in 1..Len(s) : s[i] \notin Whitespace}
    IN  IF keep = {} THEN <<>>
        ELSE LET lo == CHOOSE i \in keep : \A j \in keep : i <= j
                 hi == CHOOSE i \in keep : \A j \in keep : j <= i
             IN  SubSeq(s, lo, hi)

\* `c in s` for a one-character c
Contains(s, c) == \E i \in 1..Len(s) : s[i] = c

\* str.split(sep)[0]: the part before the first separator (all of s if none)
FirstPart(s, sep) ==
    IF Contains(s, sep)
    THEN SubSeq(s, 1, (CHOOSE i \in 1..Len(s) :
                          s[i] = sep /\ \A j \in 1..(i - 1) : s[j] # sep) - 1)
    ELSE s

\* str.split(sep): the parts between the separators, in order
RECURSIVE Split(_, _)
Split(s, sep) ==
    IF Contains(s, sep)
    THEN LET i == CHOOSE k \in 1..Len(s) :
                      s[k] = sep /\ \A j \in 1..(k - 1) : s[j] # sep
         IN  <<SubSeq(s, 1, i - 1)>> \o Split(SubSeq(s, i + 1, Len(s)), sep)
    ELSE <<s>>

AllDigits(s) == Len(s) > 0 /\ \A i \in 1..Len(s) : IsDigit(s[i])

\* value of a sequence of decimal digits
RECURSIVE DigitsToNat(_)
DigitsToNat(s) ==
    IF Len(s) = 0 THEN 0
    ELSE 10 * DigitsToNat(SubSeq(s, 1, Len(s) - 1)) + DigitVal(s[Len(s)])

\* decimal digits of a natural number
RECURSIVE NatToDigits(_)
NatToDigits(n) ==
    IF n < 10 THEN <<Digits[n + 1]>>
    ELSE NatToDigits(n \div 10) \o <<Digits[(n % 10) + 1]>>

\* a string of n copies of the character c
Rep(c, n) == [i \in 1..n |-> c]

\* ------------------------------------------------------------------------
\* Cell values and the Python conversions the rules apply to them
\* ------------------------------------------------------------------------

NaN == [t |-> "nan", n |-> 0, s |-> <<>>]

PyInt(k) == [t |-> "int", n |-> k, s |-> <<>>]

PyFloat(tenths) == [t |-> "float", n |-> tenths, s |-> <<>>]

PyInf(sign) == [t |-> "inf", n |-> sign, s |-> <<>>]

PyStr(chars) == [t |-> "str", n |-> 0, s |-> chars]

\* pd.isna(value) / pd.notna(value)
IsNa(v) == v.t = "nan"

NotNa(v) == ~IsNa(v)

Abs(k) == IF k < 0 THEN -k ELSE k

\* str(value)
Str(v) ==
    CASE v.t = "str"   -> v.s
      [] v.t = "nan"   -> <<"n", "a", "n">>
      [] v.t = "inf"   -> (IF v.n < 0 THEN <<"-">> ELSE <<>>) \o <<"i", "n", "f">>
      [] v.t = "int"   -> (IF v.n < 0 THEN <<"-">> ELSE <<>>) \o NatToDigits(Abs(v.n))
      [] v.t = "float" -> (IF v.n < 0 THEN <<"-">> ELSE <<>>)
                              \o NatToDigits(Abs(v.n) \div 10)
                              \o <<".">> \o NatToDigits(Abs(v.n) % 10)

\* a conversion's outcome: exc = "none" and the number (kind "fin" with n, kind
\* "inf" with the sign in n, kind "nan"), or the exception raised
Converted(kind, n) == [exc |-> "none", kind |-> kind, n |-> n]

Raised(exc) == [exc |-> exc, kind |-> "none", n |-> 0]

\* the text of a number: an optional sign and the rest
Unsigned(s) == IF Len(s) > 0 /\ s[1] \in {"+", "-"} THEN SubSeq(s, 2, Len(s)) ELSE s

SignOf(s) == IF Len(s) > 0 /\ s[1] = "-" THEN -1 ELSE 1

\* int(value): whole numbers; a float is truncated towards zero, infinity raises
\* OverflowError, text that is no decimal integer raises ValueError
IntOf(v) ==
    CASE v.t = "int"   -> Converted("fin", v.n)
      [] v.t = "float" -> Converted("fin", (IF v.n < 0 THEN -1 ELSE 1) * (Abs(v.n) \div 10))
      [] v.t = "inf"   -> Raised("OverflowError")
      [] v.t = "nan"   -> Raised("ValueError")
      [] v.t = "str"   ->
            LET body == Strip(v.s)
            IN  IF AllDigits(Unsigned(body))
                THEN Converted("fin", SignOf(body) * DigitsToNat(Unsigned(body)))
                ELSE Raised("ValueError")

\* float(value), in tenths: text is an optional sign, digits and an optional
\* fraction (its first digit is kept), or one of the literals inf / infinity / nan
FloatOf(v) ==
    CASE v.t = "int"   -> Converted("fin", 10 * v.n)
      [] v.t = "float" -> Converted("fin", v.n)
      [] v.t = "inf"   -> Converted("inf", v.n)
      [] v.t = "nan"   -> Converted("nan", 0)
      [] v.t = "str"   ->
            LET body  == Strip(v.s)
                u     == Unsigned(body)
                whole == FirstPart(u, ".")
                frac  == IF Contains(u, ".")
                         THEN SubSeq(u, Len(whole) + 2, Len(u)) ELSE <<>>
            IN  IF Lower(u) \in {<<"i", "n", "f">>,
                                 <<"i", "n", "f", "i", "n", "i", "t", "y">>}
                THEN Converted("inf", SignOf(body))
                ELSE IF Lower(u) = <<"n", "a", "n">>
                THEN Converted("nan", 0)
                ELSE IF /\ Len(whole) + Len(frac) > 0
                        /\ (Len(whole) = 0 \/ AllDigits(whole))
                        /\ (Len(frac) = 0 \/ AllDigits(frac))
                THEN Converted("fin", SignOf(body) *
                        (10 * DigitsToNat(whole)
                           + (IF Len(frac) > 0 THEN DigitVal(frac[1]) ELSE 0)))
                ELSE Raised("ValueError")

\* the float a conversion produced, as a cell value (for f"{income_val}")
AsValue(c) ==
    CASE c.kind = "fin" -> PyFloat(c.n)
      [] c.kind = "inf" -> PyInf(c.n)
      [] OTHER          -> NaN

\* Python's ==, as set membership and nunique see it: numbers compare by value
\* whatever their type, text by its characters, NaN equals nothing
Canon(v) == IF v.t = "int" THEN PyFloat(10 * v.n) ELSE v

PyEq(a, b) == NotNa(a) /\ NotNa(b) /\ Canon(a) = Canon(b)

\* ------------------------------------------------------------------------
\* Program constants
\* ------------------------------------------------------------------------

RowOffset == 2

NameMinLen == 2

NameMaxLen == 50

PhoneDigits == 10

AddressMinLen == 10

AddressMaxLen == 200

IncomeLimit == 10000000

MaxAge == 150

Fields == <<"customer_id", "first_name", "last_name", "email", "phone",
            "date_of_birth", "address", "income", "account_status", "created_date">>

valid_statuses == {<<"a", "c", "t", "i", "v", "e">>,
                   <<"i", "n", "a", "c", "t", "i", "v", "e">>,
                   <<"s", "u", "s", "p", "e", "n", "d", "e", "d">>}

invalid_date == <<"i", "n", "v", "a", "l", "i", "d", "_", "d", "a", "t", "e">>

\* ------------------------------------------------------------------------
\* The rules of validation.py: the issues one value gets
\* ------------------------------------------------------------------------

\* one issue string: the message template, the value it shows and, for the
\* phone rule, the digit count it reports
Issue(msg, arg) == [msg |-> msg, arg |-> arg, found |-> 0]

IsEmpty(value) == IsNa(value) \/ Strip(Str(value)) = <<>>

\* validate_customer_id, "Check if positive integer": the issues, or the
\* exception that int(value) lets through (only ValueError and TypeError are caught)
PositiveIntegerCheck(value) ==
    IF IsNa(value)
    THEN [exc |-> "none", issues |-> <<Issue("Empty (should be non-empty)", NaN)>>]
    ELSE LET val == IntOf(value)
         IN  CASE val.exc = "none" ->
                    [exc |-> "none",
                     issues |-> IF val.n <= 0
                                THEN <<Issue("should be positive", value)>>
                                ELSE <<>>]
               [] val.exc \in {"ValueError", "TypeError"} ->
                    [exc |-> "none", issues |-> <<Issue("should be integer", value)>>]
               [] OTHER -> [exc |-> val.exc, issues |-> <<>>]

\* `value in ids_seen`
InSeen(value, ids_seen) == \E x \in ids_seen : PyEq(x, value)

\* validate_customer_id, "Check uniqueness": the issues of a value given the
\* values seen at the earlier positions
UniquenessCheck(value, ids_seen) ==
    IF NotNa(value) /\ InSeen(value, ids_seen)
    THEN <<Issue("duplicate ID", value)>>
    ELSE <<>>

\* mutant of SeenAfter: the value is never remembered
SeenAfter_forgets(value, ids_seen) == ids_seen

\* mutant of SeenAfter: only a value that parses as a positive integer is remembered
SeenAfter_wellformed(value, ids_seen) ==
    IF NotNa(value) /\ ~InSeen(value, ids_seen)
       /\ IntOf(value).exc = "none" /\ IntOf(value).n > 0
    THEN ids_seen \cup {value}
    ELSE ids_seen

\* ids_seen after the value was checked
SeenAfter(value, ids_seen) ==
    IF NotNa(value) /\ ~InSeen(value, ids_seen)
    THEN ids_seen \cup {value}
    ELSE ids_seen

\* re.match(r'^[a-zA-Z\s\-]+$', name)
NameMatch(name) ==
    /\ Len(name) > 0
    /\ \A i \in 1..Len(name) : IsLetter(name[i]) \/ name[i] \in Whitespace \/ name[i] = "-"

name_issues(value) ==
    IF IsEmpty(value)
    THEN <<Issue("Empty (should be non-empty)", NaN)>>
    ELSE LET name == Strip(Str(value))
         IN  (IF Len(name) < NameMinLen
              THEN <<Issue("too short, min 2 chars", PyStr(name))>>
              ELSE IF Len(name) > NameMaxLen
              THEN <<Issue("too long, max 50 chars", PyStr(name))>>
              ELSE <<>>)
             \o (IF ~NameMatch(name)
                 THEN <<Issue("should be alphabetic", PyStr(name))>>
                 ELSE <<>>)

\* the character classes of email_pattern
IsLocalChar(c) == IsLetter(c) \/ IsDigit(c) \/ c \in {".", "_", "%", "+", "-"}

IsDomainChar(c) == IsLetter(c) \/ IsDigit(c) \/ c \in {".", "-"}

\* email_pattern.match(email):
\* ^[a-zA-Z0-9._%+-]+@[a-zA-Z0-9.-]+\.[a-zA-Z]{2,}$
EmailMatch(email) ==
    \E at \in 1..Len(email) : \E dot \in 1..Len(email) :
        /\ email[at] = "@"
        /\ email[dot] = "."
        /\ at > 1
        /\ dot > at + 1
        /\ Len(email) - dot >= 2
        /\ \A i \in 1..(at - 1) : IsLocalChar(email[i])
        /\ \A i \in (at + 1)..(dot - 1) : IsDomainChar(email[i])
        /\ \A i \in (dot + 1)..Len(email) : IsLetter(email[i])

email_issues(value) ==
    IF IsEmpty(value)
    THEN <<Issue("Empty (should be non-empty)", NaN)>>
    ELSE LET email == Strip(Str(value))
         IN  IF ~EmailMatch(email)
             THEN <<Issue("invalid email format", PyStr(email))>>
             ELSE <<>>

\* len(re.sub(r'\D', '', phone))
DigitCount(phone) == Cardinality({i \in 1..Len(phone) : IsDigit(phone[i])})

\* mutant of phone_issues: the characters are counted, not the digits
phone_issues_all_chars(value) ==
    IF IsEmpty(value)
    THEN <<Issue("Empty (should be non-empty)", NaN)>>
    ELSE LET phone == Strip(Str(value))
         IN  IF Len(phone) # PhoneDigits
             THEN <<[msg |-> "should have 10 digits", arg |-> PyStr(phone),
                     found |-> Len(phone)]>>
             ELSE <<>>

phone_issues(value) ==
    IF IsEmpty(value)
    THEN <<Issue("Empty (should be non-empty)", NaN)>>
    ELSE LET phone == Strip(Str(value))
         IN  IF DigitCount(phone) # PhoneDigits
             THEN <<[msg |-> "should have 10 digits", arg |-> PyStr(phone),
                     found |-> DigitCount(phone)]>>
             ELSE <<>>

IsLeap(y) == (y % 4 = 0 /\ y % 100 # 0) \/ y % 400 = 0

DaysIn(m, y) ==
    IF m = 2 THEN (IF IsLeap(y) THEN 29 ELSE 28)
    ELSE IF m \in {4, 6, 9, 11} THEN 30 ELSE 31

\* the directives of strptime: %Y is four digits, %m and %d one or two
IsYear(p) == AllDigits(p) /\ Len(p) = 4 /\ DigitsToNat(p) >= 1

IsMonth(p) == AllDigits(p) /\ Len(p) <= 2 /\ DigitsToNat(p) \in 1..12

IsDay(p) == AllDigits(p) /\ Len(p) <= 2 /\ DigitsToNat(p) \in 1..31

\* datetime.strptime(date_str, fmt) does not raise ValueError; fmt is the
\* separator and the position of the year, month and day among the three parts
Strptime(date_str, sep, yi, mi, di) ==
    LET parts == Split(date_str, sep)
    IN  /\ Len(parts) = 3
        /\ IsYear(parts[yi])
        /\ IsMonth(parts[mi])
        /\ IsDay(parts[di])
        /\ DigitsToNat(parts[di]) <= DaysIn(DigitsToNat(parts[mi]), DigitsToNat(parts[yi]))

\* formats = ['%Y-%m-%d', '%Y/%m/%d', '%m/%d/%Y'], tried in order: the index of
\* the first format that parses, 0 if none does
ParsedFormat(date_str) ==
    IF Strptime(date_str, "-", 1, 2, 3) THEN 1
    ELSE IF Strptime(date_str, "/", 1, 2, 3) THEN 2
    ELSE IF Strptime(date_str, "/", 3, 1, 2) THEN 3
    ELSE 0

\* mutant of date_issues: the invalid_date test is made on the string as written
date_issues_as_written(value) ==
    IF IsEmpty(value)
    THEN <<Issue("Empty (should be non-empty)", NaN)>>
    ELSE LET date_str == Strip(Str(value))
         IN  IF date_str = invalid_date
             THEN <<Issue("'invalid_date' (invalid date value)", PyStr(invalid_date))>>
             ELSE IF ParsedFormat(date_str) = 0
             THEN <<Issue("unrecognized date format", PyStr(date_str))>>
             ELSE <<>>

date_issues(value) ==
    IF IsEmpty(value)
    THEN <<Issue("Empty (should be non-empty)", NaN)>>
    ELSE LET date_str == Strip(Str(value))
         IN  IF Lower(date_str) = invalid_date
             THEN <<Issue("'invalid_date' (invalid date value)", PyStr(invalid_date))>>
             ELSE IF ParsedFormat(date_str) = 0
             THEN <<Issue("unrecognized date format", PyStr(date_str))>>
             ELSE <<>>

address_issues(value) ==
    IF IsEmpty(value)
    THEN <<Issue("Empty (should be non-empty)", NaN)>>
    ELSE LET address == Strip(Str(value))
         IN  IF Len(address) < AddressMinLen
             THEN <<Issue("too short, min 10 chars", PyStr(address))>>
             ELSE IF Len(address) > AddressMaxLen
             THEN <<Issue("too long, max 200 chars", PyStr(address))>>
             ELSE <<>>

\* income_val < 0 and income_val > 10000000 on the converted float (NaN
\* compares false both ways)
IsNegative(c) == (c.kind = "fin" /\ c.n < 0) \/ (c.kind = "inf" /\ c.n < 0)

ExceedsLimit(c) == (c.kind = "fin" /\ c.n > 10 * IncomeLimit) \/ (c.kind = "inf" /\ c.n > 0)

income_issues(value) ==
    IF IsNa(value)
    THEN <<Issue("Empty (should be non-empty)", NaN)>>
    ELSE LET income_val == FloatOf(value)
         IN  IF income_val.exc # "none"
             THEN <<Issue("should be numeric", value)>>
             ELSE IF IsNegative(income_val)
             THEN <<Issue("should be non-negative", AsValue(income_val))>>
             ELSE IF ExceedsLimit(income_val)
             THEN <<Issue("exceeds $10M limit", AsValue(income_val))>>
             ELSE <<>>

account_status_issues(value) ==
    IF IsEmpty(value)
    THEN <<Issue("Empty (should be one of: active, inactive, suspended)", NaN)>>
    ELSE LET status == Lower(Strip(Str(value)))
         IN  IF status \notin valid_statuses
             THEN <<Issue("invalid value, should be: active, inactive, suspended", value)>>
             ELSE <<>>

\* ------------------------------------------------------------------------
\* The datasets: DataFrames of 1..MaxRows records
\* ------------------------------------------------------------------------

MaxRows == 3

MaxRuns == 2

\* the records of a dataset whose passes are run in every order
MaxOrderRows == 2

FieldSet == Range(Fields)

\* a record every rule accepts (customer_id is set per record)
ValidRow ==
    [customer_id    |-> PyInt(5),
     first_name     |-> PyStr(<<"J", "o", "h", "n">>),
     last_name      |-> PyStr(<<"D", "o", "e">>),
     email          |-> PyStr(<<"a", "@", "b", ".", "c", "o">>),
     phone          |-> PyStr(<<"5", "5", "5", "1", "2", "3", "4", "5", "6", "7">>),
     date_of_birth  |-> PyStr(<<"1", "9", "9", "0", "-", "0", "1", "-", "1", "5">>),
     address        |-> PyStr(<<"1", "2", " ", "M", "a", "i", "n", " ", "S", "t">>),
     income         |-> PyInt(50000),
     account_status |-> PyStr(<<"a", "c", "t", "i", "v", "e">>),
     created_date   |-> PyStr(<<"2", "0", "2", "0", "-", "0", "3", "-", "0", "1">>)]

\* the values that replace those of ValidRow in each kind of record
RowKinds ==
    << [first_name |-> PyStr(<<"J", "o", "h", "n">>)],
       [first_name |-> PyStr(<<"7">>),
        last_name  |-> PyStr(Rep("a", NameMaxLen + 1)),
        email      |-> PyStr(<<"a", "@", "b">>),
        phone      |-> PyStr(<<"5", "5", "5", "-", "1", "2", "3", "-", "4", "5", "6">>)],
       [date_of_birth |-> PyStr(<<"1", "9", "9", "0", "/", "0", "1", "/", "1", "5">>),
        created_date  |-> PyStr(invalid_date),
        income        |-> PyInt(-100)],
       [income         |-> NaN,
        account_status |-> PyStr(<<"A", "c", "t", "i", "v", "e">>),
        address        |-> PyStr(<<"s", "h", "o", "r", "t">>),
        phone          |-> PyStr(<<"(", "5", "5", "5", ")", " ", "1", "2", "3", "-",
                                   "4", "5", "6", "7">>)],
       [date_of_birth  |-> PyStr(<<"1", "8", "7", "5", "-", "0", "6", "-", "0", "1">>),
        account_status |-> PyStr(<<>>),
        first_name     |-> PyStr(<<"A", "l", "\t", "B">>),
        last_name      |-> NaN,
        created_date   |-> PyStr(<<"0", "3", "/", "0", "1", "/", "2", "0", "2", "0">>)],
       [income         |-> PyStr(<<"a", "b", "c">>),
        date_of_birth  |-> PyStr(<<"I", "n", "v", "a", "l", "i", "d", "_", "D", "a", "t", "e">>),
        created_date   |-> PyStr(<<"2", "0", "2", "1", "-", "0", "2", "-", "3", "0">>),
        account_status |-> PyStr(<<"c", "l", "o", "s", "e", "d">>),
        email          |-> NaN,
        address        |-> PyStr(Rep("x", AddressMaxLen + 1))] >>

\* the identifiers a record may hold
IdValues ==
    {NaN, PyInt(5), PyInt(-3), PyFloat(37), PyInf(1), PyStr(<<"a", "b", "c">>)}

\* a record of the given kind over the given columns
Row(id, k, cols) ==
    [c \in cols |->
        IF c = "customer_id" THEN id
        ELSE IF c \in DOMAIN RowKinds[k] THEN RowKinds[k][c]
        ELSE ValidRow[c]]

Frame(cols, rows) == [columns |-> cols, rows |-> rows]

\* otherwise valid records, any identifiers
IdFrames ==
    {Frame(FieldSet, [i \in 1..n |-> Row(ids[i], 1, FieldSet)]) :
        <<n, ids>> \in
            UNION {{<<n, ids>> : ids \in [1..n -> IdValues]} : n \in 1..MaxRows}}

\* records of any kind, identifiers 1, 2, ...
KindFrames ==
    {Frame(FieldSet, [i \in 1..n |-> Row(PyInt(i), kinds[i], FieldSet)]) :
        <<n, kinds>> \in
            UNION {{<<n, kinds>> : kinds \in [1..n -> DOMAIN RowKinds]} :
                     n \in 1..MaxRows}}

\* a required column is absent from the DataFrame
PartialFrames ==
    {Frame(FieldSet \ {gone},
           [i \in 1..n |-> Row(IF k = 2 THEN NaN ELSE PyInt(i), k, FieldSet \ {gone})]) :
        <<n, gone, k>> \in (1..MaxRows) \X FieldSet \X {1, 2}}

Datasets == IdFrames \cup KindFrames \cup PartialFrames

\* for the runs with permuted passes: records of kind 1 or 3 that share the
\* identifier 5, so that a record fails in up to three passes
OrderFrames ==
    {Frame(FieldSet, [i \in 1..n |-> Row(ids[i], kinds[i], FieldSet)]) :
        <<n, ids, kinds>> \in
            UNION {{<<n, ids, kinds>> : ids \in [1..n -> {PyInt(5)}],
                                        kinds \in [1..n -> {1, 3}]} :
                     n \in 1..MaxOrderRows}}

\* ------------------------------------------------------------------------
\* State
\* ------------------------------------------------------------------------

VARIABLES
    df,           \* the DataFrame: its columns and its records (position i is rows[i + 1])
    year,         \* datetime.now().year
    failures,     \* DataValidator.failures
    passed_rows,  \* DataValidator.passed_rows
    todo,         \* run_all_validations: the columns whose pass is still to finish
    idx,          \* the position the running pass has reached
    ids_seen,     \* validate_customer_id: ids_seen
    raised,       \* the exception that left the validator, [exc, key]
    runs,         \* calls of run_all_validations on this validator so far
    vresults,     \* (failures, passed_rows) at the end of each completed run of it
    qpc,          \* data_quality.main: the step that comes next
    completeness, \* data_quality.main: completeness (the missing count per column)
    format_issues,      \* data_quality.main: format_issues (the two date lists)
    uniqueness,         \* data_quality.main: uniqueness
    invalid_values,     \* data_quality.main: invalid_values
    current_year,       \* analyze_invalid_values: current_year, as last read
    categorical_issues, \* data_quality.main: categorical_issues
    severity,     \* generate_report: critical, high, medium
    qraised,      \* the exception that left data_quality.main, [exc, key]
    qruns,        \* calls of data_quality.main so far
    qresults      \* the severity counters at the end of each completed call

vvars == <<failures, passed_rows, todo, idx, ids_seen, raised, runs, vresults>>

qvars == <<qpc, completeness, format_issues, uniqueness, invalid_values,
           current_year, categorical_issues, severity, qraised, qruns, qresults>>

vars == <<df, year, vvars, qvars>>

Years == {2025, 2026}

NoException == [exc |-> "none", key |-> ""]

NoFormatIssues == [date_of_birth_issues |-> <<>>, created_date_issues |-> <<>>]

len_df == Len(df.rows)

\* the state once the DataFrame is loaded and DataValidator(df) is constructed
Constructed ==
    /\ year = CHOOSE y \in Years : \A z \in Years : y <= z
    /\ failures = <<>>
    /\ passed_rows = 0..(len_df - 1)
    /\ todo = <<>>
    /\ idx = 0
    /\ ids_seen = {}
    /\ raised = NoException
    /\ runs = 0
    /\ vresults = <<>>
    /\ qpc = "idle"
    /\ completeness = <<>>
    /\ format_issues = NoFormatIssues
    /\ uniqueness = [total |-> 0, unique |-> 0, duplicates |-> 0]
    /\ invalid_values = <<>>
    /\ current_year = year
    /\ categorical_issues = <<>>
    /\ severity = [critical |-> 0, high |-> 0, medium |-> 0]
    /\ qraised = NoException
    /\ qruns = 0
    /\ qresults = <<>>

Init == df \in Datasets /\ Constructed

\* ------------------------------------------------------------------------
\* DataValidator
\* ------------------------------------------------------------------------

\* mutant of add_failure: the record stays in passed_rows
add_failure_keeps(fs, passed, row_idx, column, issues) ==
    [failures    |-> Append(fs, [row    |-> row_idx + RowOffset,
                                 column |-> column,
                                 issues |-> issues]),
     passed_rows |-> passed]

\* mutant of add_failure: the new Failure is put in front of the list
add_failure_in_front(fs, passed, row_idx, column, issues) ==
    [failures    |-> <<[row    |-> row_idx + RowOffset,
                        column |-> column,
                        issues |-> issues]>> \o fs,
     passed_rows |-> passed \ {row_idx}]

\* mutant of add_failure: a record that is already out of passed_rows is put back
add_failure_toggles(fs, passed, row_idx, column, issues) ==
    [failures    |-> Append(fs, [row    |-> row_idx + RowOffset,
                                 column |-> column,
                                 issues |-> issues]),
     passed_rows |-> IF row_idx \in passed THEN passed \ {row_idx}
                     ELSE passed \cup {row_idx}]

\* add_failure(row_idx, column, issues): the failures list and passed_rows after it
add_failure(fs, passed, row_idx, column, issues) ==
    [failures    |-> Append(fs, [row    |-> row_idx + RowOffset,
                                 column |-> column,
                                 issues |-> issues]),
     passed_rows |-> passed \ {row_idx}]

\* mutant of Report: only a record still in passed_rows gets a Failure
Report_first_only(fs, passed, row_idx, column, issues) ==
    IF issues # <<>> /\ row_idx \in passed
    THEN add_failure(fs, passed, row_idx, column, issues)
    ELSE [failures |-> fs, passed_rows |-> passed]

\* `if issues: self.add_failure(idx, column, issues)`
Report(fs, passed, row_idx, column, issues) ==
    IF issues # <<>>
    THEN add_failure(fs, passed, row_idx, column, issues)
    ELSE [failures |-> fs, passed_rows |-> passed]

\* the value the running pass looks at: self.df[column] at position idx
Cell(column) == df.rows[idx + 1][column]

Running(column) == todo # <<>> /\ Head(todo) = column

\* one iteration of `for idx, value in enumerate(self.df[column])` that found
\* `issues`; after the last record the pass returns, and after the last pass
\* run_all_validations does
Iterate(column, issues) ==
    LET after == Report(failures, passed_rows, idx, column, issues)
        last  == idx + 1 = len_df
        rest  == IF last THEN Tail(todo) ELSE todo
    IN  /\ failures' = after.failures
        /\ passed_rows' = after.passed_rows
        /\ idx' = IF last THEN 0 ELSE idx + 1
        /\ todo' = rest
        /\ vresults' = IF rest = <<>>
                       THEN Append(vresults, [failures    |-> after.failures,
                                              passed_rows |-> after.passed_rows])
                       ELSE vresults

\* an exception leaves the pass and run_all_validations: nothing catches it
Raise(exc, key) ==
    /\ raised' = [exc |-> exc, key |-> key]
    /\ todo' = <<>>
    /\ idx' = 0
    /\ ids_seen' = {}
    /\ UNCHANGED <<failures, passed_rows, vresults>>

\* DataValidator(df): a new validator for the same DataFrame
DataValidator_init ==
    /\ todo = <<>>
    /\ runs >= 1
    /\ failures' = <<>>
    /\ passed_rows' = 0..(len_df - 1)
    /\ raised' = NoException
    /\ runs' = 0
    /\ vresults' = <<>>
    /\ UNCHANGED <<df, year, todo, idx, ids_seen, qvars>>

\* the call of run_all_validations: the ten passes in its order
run_all_validations ==
    /\ todo = <<>>
    /\ runs < MaxRuns
    /\ todo' = Fields
    /\ idx' = 0
    /\ ids_seen' = {}
    /\ raised' = NoException
    /\ runs' = runs + 1
    /\ UNCHANGED <<df, year, failures, passed_rows, vresults, qvars>>

validate_customer_id ==
    /\ Running("customer_id")
    /\ IF "customer_id" \notin df.columns
       THEN Raise("KeyError", "customer_id")
       ELSE LET value == Cell("customer_id")
                check == PositiveIntegerCheck(value)
            IN  IF check.exc # "none"
                THEN Raise(check.exc, "customer_id")
                ELSE /\ Iterate("customer_id",
                                check.issues \o UniquenessCheck(value, ids_seen))
                     /\ ids_seen' = IF idx + 1 = len_df THEN {}
                                    ELSE SeenAfter(value, ids_seen)
                     /\ UNCHANGED raised
    /\ UNCHANGED <<df, year, runs, qvars>>

validate_name ==
    \E column \in {"first_name", "last_name"} :
        /\ Running(column)
        /\ IF column \notin df.columns
           THEN Raise("KeyError", column)
           ELSE Iterate(column, name_issues(Cell(column))) /\ UNCHANGED <<ids_seen, raised>>
        /\ UNCHANGED <<df, year, runs, qvars>>

validate_email ==
    /\ Running("email")
    /\ IF "email" \notin df.columns
       THEN Raise("KeyError", "email")
       ELSE Iterate("email", email_issues(Cell("email"))) /\ UNCHANGED <<ids_seen, raised>>
    /\ UNCHANGED <<df, year, runs, qvars>>

validate_phone ==
    /\ Running("phone")
    /\ IF "phone" \notin df.columns
       THEN Raise("KeyError", "phone")
       ELSE Iterate("phone", phone_issues(Cell("phone"))) /\ UNCHANGED <<ids_seen, raised>>
    /\ UNCHANGED <<df, year, runs, qvars>>

validate_date ==
    \E column \in {"date_of_birth", "created_date"} :
        /\ Running(column)
        /\ IF column \notin df.columns
           THEN Raise("KeyError", column)
           ELSE Iterate(column, date_issues(Cell(column))) /\ UNCHANGED <<ids_seen, raised>>
        /\ UNCHANGED <<df, year, runs, qvars>>

validate_address ==
    /\ Running("address")
    /\ IF "address" \notin df.columns
       THEN Raise("KeyError", "address")
       ELSE Iterate("address", address_issues(Cell("address")))
            /\ UNCHANGED <<ids_seen, raised>>
    /\ UNCHANGED <<df, year, runs, qvars>>

validate_income ==
    /\ Running("income")
    /\ IF "income" \notin df.columns
       THEN Raise("KeyError", "income")
       ELSE Iterate("income", income_issues(Cell("income")))
            /\ UNCHANGED <<ids_seen, raised>>
    /\ UNCHANGED <<df, year, runs, qvars>>

validate_account_status ==
    /\ Running("account_status")
    /\ IF "account_status" \notin df.columns
       THEN Raise("KeyError", "account_status")
       ELSE Iterate("account_status", account_status_issues(Cell("account_status")))
            /\ UNCHANGED <<ids_seen, raised>>
    /\ UNCHANGED <<df, year, runs, qvars>>

Next ==
    \/ DataValidator_init
    \/ run_all_validations
    \/ validate_customer_id
    \/ validate_name
    \/ validate_email
    \/ validate_phone
    \/ validate_date
    \/ validate_address
    \/ validate_income
    \/ validate_account_status

Spec == Init /\ [][Next]_vars

\* run_all_validations with its ten validate_* calls permuted: the call itself
run_all_validations_permuted ==
    /\ todo = <<>>
    /\ runs = 0
    /\ todo' = Fields
    /\ idx' = 0
    /\ ids_seen' = {}
    /\ raised' = NoException
    /\ runs' = runs + 1
    /\ UNCHANGED <<df, year, failures, passed_rows, vresults, qvars>>

\* the permutation: before a pass starts, any column still to do is taken
\* next (the others wait in the order of Fields)
take_next ==
    /\ todo # <<>>
    /\ idx = 0
    /\ \E column \in Range(Tail(todo)) :
          todo' = <<column>> \o SelectSeq(Fields, LAMBDA c : c \in Range(todo) /\ c # column)
    /\ UNCHANGED <<df, year, failures, passed_rows, idx, ids_seen, raised, runs,
                   vresults, qvars>>

NextAnyOrder ==
    \/ run_all_validations_permuted
    \/ take_next
    \/ validate_customer_id
    \/ validate_name
    \/ validate_email
    \/ validate_phone
    \/ validate_date
    \/ validate_address
    \/ validate_income
    \/ validate_account_status

InitAnyOrder == df \in OrderFrames /\ Constructed

SpecAnyOrder == InitAnyOrder /\ [][NextAnyOrder]_vars

\* ------------------------------------------------------------------------
\* Properties of the validation engine
\* ------------------------------------------------------------------------

Positions == 0..(len_df - 1)

\* the Failures of a record position, as indexes into the failures list
FailuresOf(i) == {k \in 1..Len(failures) : failures[k].row = i + RowOffset}

FailuresAt(i, column) == {k \in FailuresOf(i) : failures[k].column = column}

HasIssue(k, msg) == \E n \in 1..Len(failures[k].issues) : failures[k].issues[n].msg = msg

\* the identifier at a record position
IdAt(i) == df.rows[i + 1]["customer_id"]

\* C1: a record position is in passed_rows if and only if the failures list holds
\* no Failure for it, so the passing records and the records with a Failure
\* partition the dataset
C1_PassSetIffNoFailure ==
    /\ passed_rows \subseteq Positions
    /\ \A i \in Positions : (i \in passed_rows) <=> (FailuresOf(i) = {})
    /\ Cardinality(passed_rows)
         + Cardinality({i \in Positions : FailuresOf(i) # {}}) = len_df

\* C1 witness: in the middle of a run one record still passes and another has
\* two Failures and is out of passed_rows
C1_Witness ==
    /\ todo # <<>>
    /\ \E i \in Positions : i \in passed_rows
    /\ \E i \in Positions : i \notin passed_rows /\ Cardinality(FailuresOf(i)) >= 2

\* C2 (as claimed): the failures list never holds two Failures for the same
\* (record, field) pair, whatever passes ran and however often
C2_OneFailurePerPair ==
    \A k1, k2 \in 1..Len(failures) :
        (failures[k1].row = failures[k2].row /\ failures[k1].column = failures[k2].column)
            => k1 = k2

\* the pass conditions of the ten fields as the rule table states them
Integral(v) ==
    CASE v.t = "int"   -> TRUE
      [] v.t = "float" -> v.n % 10 = 0
      [] v.t = "str"   -> AllDigits(Unsigned(Strip(v.s)))
      [] OTHER         -> FALSE

Present(v) == NotNa(v) /\ Strip(Str(v)) # <<>>

AppearedEarlier(i) == \E j \in 0..(i - 1) : PyEq(IdAt(j), IdAt(i))

RulePasses(i, column) ==
    LET v    == df.rows[i + 1][column]
        text == Strip(Str(v))
    IN  CASE column = "customer_id" ->
                /\ Present(v)
                /\ Integral(v)
                /\ IntOf(v).n > 0
                /\ ~AppearedEarlier(i)
          [] column \in {"first_name", "last_name"} ->
                /\ Present(v)
                /\ Len(text) \in NameMinLen..NameMaxLen
                /\ \A n \in 1..Len(text) : IsLetter(text[n]) \/ text[n] \in {" ", "-"}
          [] column = "email" -> Present(v) /\ EmailMatch(text)
          [] column = "phone" -> Present(v) /\ DigitCount(text) = PhoneDigits
          [] column \in {"date_of_birth", "created_date"} ->
                /\ Present(v)
                /\ Lower(text) # invalid_date
                /\ ParsedFormat(text) # 0
          [] column = "address" ->
                Present(v) /\ Len(text) \in AddressMinLen..AddressMaxLen
          [] column = "income" ->
                /\ Present(v)
                /\ FloatOf(v).exc = "none"
                /\ FloatOf(v).kind = "fin"
                /\ FloatOf(v).n >= 0
                /\ FloatOf(v).n <= 10 * IncomeLimit
          [] column = "account_status" ->
                Present(v) /\ Lower(text) \in valid_statuses

\* the first run of run_all_validations has completed and the validator still
\* holds its result
FirstRunDone ==
    /\ runs = 1
    /\ todo = <<>>
    /\ raised = NoException
    /\ Len(vresults) = 1
    /\ failures = vresults[1].failures
    /\ passed_rows = vresults[1].passed_rows

\* C3 (as claimed): after run_all_validations a Failure for (record, field)
\* exists if and only if a rule of the field does not pass for the record's
\* value, and every Failure carries at least one issue
C3_FailureIffRuleFails ==
    FirstRunDone =>
        /\ \A i \in Positions : \A column \in FieldSet :
              (FailuresAt(i, column) # {}) <=> ~RulePasses(i, column)
        /\ \A k \in 1..Len(failures) : failures[k].issues # <<>>

\* the customer_id pass has looked at position i
IdChecked(i) ==
    \/ Running("customer_id") /\ i < idx
    \/ todo # <<>> /\ Head(todo) # "customer_id"

\* C4: a record gets the duplicate-ID issue if and only if its identifier is
\* present and the same value stands at an earlier position; the verdict on a
\* position is there as soon as the pass has passed it, whatever follows
C4_DuplicateIffEarlier ==
    /\ \A k \in 1..Len(failures) :
          HasIssue(k, "duplicate ID") =>
              /\ failures[k].column = "customer_id"
              /\ failures[k].row - RowOffset \in Positions
              /\ NotNa(IdAt(failures[k].row - RowOffset))
              /\ AppearedEarlier(failures[k].row - RowOffset)
    /\ \A i \in Positions :
          (IdChecked(i) /\ NotNa(IdAt(i)) /\ AppearedEarlier(i)) =>
              \E k \in FailuresAt(i, "customer_id") : HasIssue(k, "duplicate ID")

\* C4 witness: identifiers [5, 5, 5] give the duplicate issue on the second and
\* third record and not on the first
C4_Witness ==
    /\ len_df = 3
    /\ "customer_id" \in df.columns
    /\ \A i \in Positions : IdAt(i) = PyInt(5) /\ IdChecked(i)
    /\ FailuresAt(0, "customer_id") = {}
    /\ \A i \in {1, 2} : \E k \in FailuresAt(i, "customer_id") : HasIssue(k, "duplicate ID")
    /\ Cardinality({k \in 1..Len(failures) : HasIssue(k, "duplicate ID")}) = 2

\* the identifier parses as a positive integer
WellFormed(v) == NotNa(v) /\ IntOf(v).exc = "none" /\ IntOf(v).n > 0

\* C5 (as claimed): only present, well-formed identifiers enter ids_seen, and a
\* duplicate is only ever reported against a well-formed earlier identifier
C5_OnlyWellFormedSeen ==
    /\ \A x \in ids_seen : WellFormed(x)
    /\ \A k \in 1..Len(failures) :
          HasIssue(k, "duplicate ID") =>
              \E j \in 0..(failures[k].row - RowOffset - 1) :
                  /\ PyEq(IdAt(j), IdAt(failures[k].row - RowOffset))
                  /\ WellFormed(IdAt(j))

\* C5 (amended): every present identifier, well-formed or not, enters ids_seen
\* when the pass reaches it, and only a missing one stays out: while the pass
\* runs, ids_seen holds exactly the present identifiers of the earlier positions
C5_PresentSeen ==
    Running("customer_id") =>
        /\ \A x \in ids_seen : NotNa(x) /\ \E j \in 0..(idx - 1) : IdAt(j) = x
        /\ \A j \in 0..(idx - 1) : NotNa(IdAt(j)) => InSeen(IdAt(j), ids_seen)

\* C5 witness: a missing identifier was passed and left out of ids_seen, a
\* malformed one is in it, and its repetition was reported as a duplicate
C5_Witness ==
    /\ Running("customer_id")
    /\ \E j \in 0..(idx - 1) : IsNa(IdAt(j))
    /\ \E x \in ids_seen : ~WellFormed(x)
    /\ \E k \in 1..Len(failures) :
          HasIssue(k, "duplicate ID") /\ ~WellFormed(IdAt(failures[k].row - RowOffset))

\* ------------------------------------------------------------------------
\* data_quality.py: the analyses and the severity classifier
\* ------------------------------------------------------------------------

\* the positions of a frame's records that satisfy Hit, in record order
Hits(d, Hit(_)) == SelectSeq([i \in 1..Len(d.rows) |-> i - 1], Hit)

\* one line of an issue list: "Row {idx+2}: ..."
Entry(i, what) == [row |-> i + RowOffset, what |-> what]

Entries(picked, what) == [k \in 1..Len(picked) |-> Entry(picked[k], what)]

\* `date_val != ''`
RawNotEmpty(v) == v # PyStr(<<>>)

\* analyze_completeness: the 'missing' count of every column of the frame (the
\* percentage is derived from the same count and read by no counter)
Completeness(d) ==
    [col \in d.columns |->
        LET total_rows     == Len(d.rows)
            non_null_count == Cardinality({i \in 1..Len(d.rows) : NotNa(d.rows[i][col])})
            empty_strings  == Cardinality({i \in 1..Len(d.rows) : d.rows[i][col] = PyStr(<<>>)})
            valid_count    == non_null_count - empty_strings
        IN  total_rows - valid_count]

\* analyze_format_issues: the date lists (the phone formats reach no counter)
DobFormatIssue(v) ==
    IF NotNa(v) /\ RawNotEmpty(v)
    THEN LET date_str == Strip(Str(v))
         IN  IF date_str = invalid_date THEN "invalid_date"
             ELSE IF Contains(date_str, "/") THEN "YYYY/MM/DD format"
             ELSE "none"
    ELSE "none"

CreatedFormatIssue(v) ==
    IF NotNa(v) /\ RawNotEmpty(v)
    THEN LET date_str == Strip(Str(v))
         IN  IF date_str = invalid_date THEN "invalid_date"
             ELSE IF Contains(date_str, "/") /\ IsDigit(date_str[1])
             THEN "MM/DD/YYYY format"
             ELSE "none"
    ELSE "none"

FormatIssues(d) ==
    LET dob(i)     == DobFormatIssue(d.rows[i + 1]["date_of_birth"])
        created(i) == CreatedFormatIssue(d.rows[i + 1]["created_date"])
        dobHits    == Hits(d, LAMBDA i : dob(i) # "none")
        crHits     == Hits(d, LAMBDA i : created(i) # "none")
    IN  [date_of_birth_issues |-> [k \in 1..Len(dobHits) |-> Entry(dobHits[k], dob(dobHits[k]))],
         created_date_issues  |-> [k \in 1..Len(crHits) |-> Entry(crHits[k], created(crHits[k]))]]

\* df['customer_id'].nunique(): the distinct values, missing ones left out
Nunique(d, col) ==
    Cardinality({Canon(d.rows[i][col]) : i \in {j \in 1..Len(d.rows) : NotNa(d.rows[j][col])}})

\* analyze_uniqueness
Uniqueness(d) ==
    LET total_ids  == Len(d.rows)
        unique_ids == Nunique(d, "customer_id")
    IN  [total |-> total_ids, unique |-> unique_ids, duplicates |-> total_ids - unique_ids]

\* mutant of NegativeIncome: no income is reported as negative
NegativeIncome_never(v) == FALSE

\* analyze_invalid_values, "Check for negative income": the bare except
\* swallows whatever float(income) raises
NegativeIncome(v) == NotNa(v) /\ FloatOf(v).exc = "none" /\ IsNegative(FloatOf(v))

\* analyze_invalid_values, "Check for unrealistic ages": the age when the check
\* computes one, -1 when it does not (no '-', or int() raised and was swallowed)
AgeOf(v, now_year) ==
    IF NotNa(v) /\ Strip(Str(v)) \notin {<<>>, invalid_date} /\ Contains(Str(v), "-")
    THEN LET birth == IntOf(PyStr(FirstPart(Str(v), "-")))
         IN  IF birth.exc = "none" THEN now_year - birth.n ELSE -1
    ELSE -1

IsInvalidDate(v) == NotNa(v) /\ Strip(Str(v)) = invalid_date

InvalidValues(d, now_year) ==
    Entries(Hits(d, LAMBDA i : IsInvalidDate(d.rows[i + 1]["date_of_birth"])),
            "date_of_birth = 'invalid_date'")
    \o Entries(Hits(d, LAMBDA i : IsInvalidDate(d.rows[i + 1]["created_date"])),
               "created_date = 'invalid_date'")
    \o Entries(Hits(d, LAMBDA i : NegativeIncome(d.rows[i + 1]["income"])),
               "income (negative)")
    \o Entries(Hits(d, LAMBDA i : AgeOf(d.rows[i + 1]["date_of_birth"], now_year) > MaxAge),
               "age (unrealistic)")

\* analyze_categorical_validity: the membership test is on the stripped value
\* as written, not lower-cased
CategoricalIssue(status) ==
    IF NotNa(status) /\ Strip(Str(status)) # <<>>
    THEN (IF Strip(Str(status)) \notin valid_statuses THEN "invalid value" ELSE "none")
    ELSE "Empty (missing value)"

CategoricalIssues(d) ==
    LET issue(i) == CategoricalIssue(d.rows[i + 1]["account_status"])
        hits     == Hits(d, LAMBDA i : issue(i) # "none")
    IN  [k \in 1..Len(hits) |-> Entry(hits[k], issue(hits[k]))]

RECURSIVE SumMissing(_, _)
SumMissing(comp, cols) ==
    IF cols = {} THEN 0
    ELSE LET col == CHOOSE c \in cols : TRUE
         IN  comp[col] + SumMissing(comp, cols \ {col})

\* generate_report, "Count issues by severity"
SeverityCount(comp, fmt, uniq, invalid, categorical) ==
    [critical |-> (IF uniq.duplicates > 0 THEN uniq.duplicates ELSE 0)
                    + SumMissing(comp, DOMAIN comp \cap {"customer_id"}),
     high     |-> Len(fmt.date_of_birth_issues) + Len(fmt.created_date_issues)
                    + Len(invalid),
     medium   |-> Len(categorical) + SumMissing(comp, DOMAIN comp \ {"customer_id"})]

\* the counters data_quality.main reports for a frame in a given year
SeverityOf(d, now_year) ==
    SeverityCount(Completeness(d), FormatIssues(d), Uniqueness(d),
                  InvalidValues(d, now_year), CategoricalIssues(d))

\* an exception leaves main: nothing catches it
QRaise(key) ==
    /\ qraised' = [exc |-> "KeyError", key |-> key]
    /\ qpc' = "idle"
    /\ UNCHANGED <<completeness, format_issues, uniqueness, invalid_values,
                   current_year, categorical_issues, severity, qruns, qresults>>

\* the first column of `needed`, in the order the code reads them, that the
\* frame lacks ("" if none)
FirstMissing(needed) ==
    IF \E k \in 1..Len(needed) : needed[k] \notin df.columns
    THEN needed[CHOOSE k \in 1..Len(needed) :
                    /\ needed[k] \notin df.columns
                    /\ \A j \in 1..(k - 1) : needed[j] \in df.columns]
    ELSE ""

\* main() starts with analyze_completeness
analyze_completeness ==
    /\ qpc = "idle"
    /\ qruns < MaxRuns
    /\ qruns' = qruns + 1
    /\ completeness' = Completeness(df)
    /\ format_issues' = NoFormatIssues
    /\ uniqueness' = [total |-> 0, unique |-> 0, duplicates |-> 0]
    /\ invalid_values' = <<>>
    /\ categorical_issues' = <<>>
    /\ qraised' = NoException
    /\ qpc' = "analyze_format_issues"
    /\ UNCHANGED <<df, year, vvars, current_year, severity, qresults>>

analyze_format_issues ==
    /\ qpc = "analyze_format_issues"
    /\ LET gone == FirstMissing(<<"phone", "date_of_birth", "created_date">>)
       IN  IF gone # "" THEN QRaise(gone)
           ELSE /\ format_issues' = FormatIssues(df)
                /\ qpc' = "analyze_uniqueness"
                /\ UNCHANGED <<completeness, uniqueness, invalid_values, current_year,
                               categorical_issues, severity, qraised, qruns, qresults>>
    /\ UNCHANGED <<df, year, vvars>>

analyze_uniqueness ==
    /\ qpc = "analyze_uniqueness"
    /\ LET gone == FirstMissing(<<"customer_id">>)
       IN  IF gone # "" THEN QRaise(gone)
           ELSE /\ uniqueness' = Uniqueness(df)
                /\ qpc' = "analyze_invalid_values"
                /\ UNCHANGED <<completeness, format_issues, invalid_values, current_year,
                               categorical_issues, severity, qraised, qruns, qresults>>
    /\ UNCHANGED <<df, year, vvars>>

analyze_invalid_values ==
    /\ qpc = "analyze_invalid_values"
    /\ LET gone == FirstMissing(<<"date_of_birth", "created_date", "income">>)
       IN  IF gone # "" THEN QRaise(gone)
           ELSE /\ current_year' = year
                /\ invalid_values' = InvalidValues(df, current_year')
                /\ qpc' = "analyze_categorical_validity"
                /\ UNCHANGED <<completeness, format_issues, uniqueness,
                               categorical_issues, severity, qraised, qruns, qresults>>
    /\ UNCHANGED <<df, year, vvars>>

analyze_categorical_validity ==
    /\ qpc = "analyze_categorical_validity"
    /\ LET gone == FirstMissing(<<"account_status">>)
       IN  IF gone # "" THEN QRaise(gone)
           ELSE /\ categorical_issues' = CategoricalIssues(df)
                /\ qpc' = "generate_report"
                /\ UNCHANGED <<completeness, format_issues, uniqueness, invalid_values,
                               current_year, severity, qraised, qruns, qresults>>
    /\ UNCHANGED <<df, year, vvars>>

generate_report ==
    /\ qpc = "generate_report"
    /\ severity' = SeverityCount(completeness, format_issues, uniqueness,
                                 invalid_values, categorical_issues)
    /\ qresults' = Append(qresults, severity')
    /\ qpc' = "idle"
    /\ UNCHANGED <<df, year, vvars, completeness, format_issues, uniqueness,
                   invalid_values, current_year, categorical_issues, qraised, qruns>>

\* the calendar year changes between two calls of main
new_year ==
    /\ qpc = "idle"
    /\ year + 1 \in Years
    /\ year' = year + 1
    /\ UNCHANGED <<df, vvars, qvars>>

NextQuality ==
    \/ analyze_completeness
    \/ analyze_format_issues
    \/ analyze_uniqueness
    \/ analyze_invalid_values
    \/ analyze_categorical_validity
    \/ generate_report
    \/ new_year

SpecQuality == Init /\ [][NextQuality]_vars

\* ------------------------------------------------------------------------
\* Properties of runs, errors and the severity counters
\* ------------------------------------------------------------------------

\* C6 (as claimed): every completed run on the dataset gives the result of the
\* first: the same failures and passed_rows, the same critical, high and medium,
\* whenever the runs are executed
C6_SecondRunEqualsFirst ==
    /\ \A a, b \in 1..Len(vresults) : vresults[a] = vresults[b]
    /\ \A a, b \in 1..Len(qresults) : qresults[a] = qresults[b]

\* C7 (as claimed): when a required column is absent the run ends in a
\* SchemaError naming that column, and failures and passed_rows show nothing of
\* the passes that ran before the column was reached
C7_SchemaErrorNoPartial ==
    (runs = 1 /\ raised # NoException /\ df.columns # FieldSet) =>
        /\ raised.exc = "SchemaError"
        /\ raised.key \in FieldSet \ df.columns
        /\ failures = <<>>
        /\ passed_rows = Positions

\* C8 (as claimed): on a dataset with all ten columns no value makes a
\* validate_* method raise
C8_NoRuleRaises == (df.columns = FieldSet) => raised = NoException

\* main() has returned the report of its latest call
ReportDone == qpc = "idle" /\ qruns >= 1 /\ qraised = NoException

\* records whose present identifier stands at an earlier position already
DuplicateOccurrences ==
    Cardinality({i \in Positions : NotNa(IdAt(i)) /\ AppearedEarlier(i)})

\* records whose identifier is missing
MissingIds == Cardinality({i \in Positions : IsNa(IdAt(i)) \/ IdAt(i) = PyStr(<<>>)})

\* C9 (as claimed): critical = duplicate identifier occurrences + records with a
\* missing identifier, each missing identifier counting once
C9_CriticalCount ==
    ReportDone => severity.critical = DuplicateOccurrences + MissingIds

\* the values a cell of the column may hold
Vocabulary(column) ==
    IF column = "customer_id" THEN IdValues
    ELSE {ValidRow[column]} \cup
         {RowKinds[k][column] : k \in {n \in DOMAIN RowKinds : column \in DOMAIN RowKinds[n]}}

\* the value violates a rule of its field: a defect of that one cell
Defective(column, v) ==
    CASE column = "customer_id" ->
            PositiveIntegerCheck(v).exc # "none" \/ PositiveIntegerCheck(v).issues # <<>>
      [] column \in {"first_name", "last_name"} -> name_issues(v) # <<>>
      [] column = "email" -> email_issues(v) # <<>>
      [] column = "phone" -> phone_issues(v) # <<>>
      [] column \in {"date_of_birth", "created_date"} -> date_issues(v) # <<>>
      [] column = "address" -> address_issues(v) # <<>>
      [] column = "income" -> income_issues(v) # <<>>
      [] column = "account_status" -> account_status_issues(v) # <<>>

\* the identifier of no other record equals v
Unshared(i, v) == \A j \in Positions \ {i} : ~PyEq(IdAt(j), v)

\* the frame with the cell (i, column) set to v
WithCell(i, column, v) ==
    [df EXCEPT !.rows = [df.rows EXCEPT ![i + 1] = [df.rows[i + 1] EXCEPT ![column] = v]]]

ChangedCounters(a, b) == {k \in {"critical", "high", "medium"} : a[k] # b[k]}

\* C10 (as claimed): the counters are never negative, and turning one valid cell
\* into a defect changes exactly one of critical, high and medium
C10_OneTierPerDefect ==
    ReportDone =>
        /\ severity.critical >= 0 /\ severity.high >= 0 /\ severity.medium >= 0
        /\ \A i \in Positions : \A column \in FieldSet : \A v \in Vocabulary(column) :
              ( /\ ~Defective(column, df.rows[i + 1][column])
                /\ Defective(column, v)
                /\ column = "customer_id" => (Unshared(i, IdAt(i)) /\ Unshared(i, v)) )
              => Cardinality(ChangedCounters(severity,
                                             SeverityOf(WithCell(i, column, v), current_year))) = 1

\* ------------------------------------------------------------------------
\* Properties of the single rules and of the counters they feed
\* ------------------------------------------------------------------------

\* the counters a with b added to the counter named tier
Plus(a, tier, b) == [a EXCEPT ![tier] = @ + b]

\* the positions whose income passes validate_income
ValidIncomes == {i \in Positions : income_issues(df.rows[i + 1]["income"]) = <<>>}

\* main() has returned its first report
FirstReportDone == ReportDone /\ qruns = 1

\* C11: against the report of the dataset, the report of the dataset with one
\* record's valid income changed to -100 has high greater by exactly 1 and the
\* same critical and medium, and the income rule reports the one issue "should
\* be non-negative"; with the income changed to missing, medium is greater by
\* exactly 1 with the same critical and high, and the rule reports the one
\* issue "Empty"
C11_IncomeDefectTier ==
    FirstReportDone =>
        /\ income_issues(PyInt(-100)) = <<Issue("should be non-negative", PyFloat(-1000))>>
        /\ income_issues(NaN) = <<Issue("Empty (should be non-empty)", NaN)>>
        /\ \A i \in ValidIncomes :
              /\ SeverityOf(WithCell(i, "income", PyInt(-100)), current_year)
                    = Plus(severity, "high", 1)
              /\ SeverityOf(WithCell(i, "income", NaN), current_year)
                    = Plus(severity, "medium", 1)

\* C11 witness: a report on a dataset where a valid income stands next to
\* records already counted in high and medium
C11_Witness ==
    /\ FirstReportDone
    /\ ValidIncomes # {}
    /\ severity.high > 0
    /\ severity.medium > 0

\* the (record, date field) cells the classifier reports as a date-format or
\* invalid-date issue
DateIssueCells ==
    {<<i, "date_of_birth">> : i \in
        {j \in Positions : \/ DobFormatIssue(df.rows[j + 1]["date_of_birth"]) # "none"
                           \/ IsInvalidDate(df.rows[j + 1]["date_of_birth"])}}
    \cup
    {<<i, "created_date">> : i \in
        {j \in Positions : \/ CreatedFormatIssue(df.rows[j + 1]["created_date"]) # "none"
                           \/ IsInvalidDate(df.rows[j + 1]["created_date"])}}

\* the other invalid-value issues: negative income, unrealistic computed age
OtherInvalidCells ==
    {<<i, "income">> : i \in {j \in Positions : NegativeIncome(df.rows[j + 1]["income"])}}
    \cup
    {<<i, "age">> : i \in
        {j \in Positions : AgeOf(df.rows[j + 1]["date_of_birth"], current_year) > MaxAge}}

\* C12 (as claimed): high = the date-format / invalid-date issues of the two
\* date fields + the other invalid-value issues, every issue counted once, a
\* date holding 'invalid_date' included
C12_HighCountsOnce ==
    ReportDone =>
        severity.high = Cardinality(DateIssueCells) + Cardinality(OtherInvalidCells)

\* C13 (as claimed): once validate_customer_id has looked at a record, the
\* record has no Failure on customer_id if and only if its identifier is
\* present, integral, greater than 0 and absent from every earlier position;
\* a present identifier that is not integral, 3.7 for one, carries the issue
\* "should be integer"
C13_IdentifierPassIff ==
    ("customer_id" \in df.columns) =>
        \A i \in Positions :
            /\ FailuresAt(i, "customer_id") # {} => ~RulePasses(i, "customer_id")
            /\ (IdChecked(i) /\ FailuresAt(i, "customer_id") = {}) => RulePasses(i, "customer_id")
            /\ (IdChecked(i) /\ NotNa(IdAt(i)) /\ ~Integral(IdAt(i))) =>
                    \E k \in FailuresAt(i, "customer_id") : HasIssue(k, "should be integer")

\* ------------------------------------------------------------------------
\* The grouping of the Failures and the validation report
\* ------------------------------------------------------------------------

\* get_failures_by_column: the Failures of each column that has one, in the
\* order of the failures list
get_failures_by_column(fs) ==
    [column \in {fs[k].column : k \in 1..Len(fs)} |->
        SelectSeq(fs, LAMBDA failure : failure.column = column)]

\* failures_by_column.get(column, [])
Get(by_column, column) ==
    IF column \in DOMAIN by_column THEN by_column[column] ELSE <<>>

\* generate_validation_report(validator, df): the numbers the report shows
generate_validation_report(fs, passed, total_rows) ==
    LET failures_by_column == get_failures_by_column(fs)
    IN  [passed_count |-> Cardinality(passed),
         failed_count |-> total_rows - Cardinality(passed),
         valid        |-> [column \in FieldSet |->
                              total_rows - Len(Get(failures_by_column, column))]]

\* run_all_validations has returned at least once and the report may be made
RunReturned == todo = <<>> /\ runs >= 1 /\ raised = NoException

\* C14 (as claimed): whatever runs preceded the report, the valid count of every
\* field is the record count minus the number of distinct records with a
\* Failure on the field, and lies between 0 and the record count
C14_ValidCount ==
    RunReturned =>
        \A column \in FieldSet :
            LET valid == generate_validation_report(failures, passed_rows, len_df).valid[column]
            IN  /\ valid = len_df - Cardinality({i \in Positions : FailuresAt(i, column) # {}})
                /\ valid \in 0..len_df

\* the row references of a list of Failures are strictly increasing
StrictlyIncreasing(list) ==
    \A a, b \in 1..Len(list) : a < b => list[a].row < list[b].row

\* C15 (as claimed): in the grouping of get_failures_by_column the Failures of
\* every field stand in record order, their row references strictly
\* increasing, at every moment of every run
C15_RecordOrderPerField ==
    LET by_column == get_failures_by_column(failures)
    IN  \A column \in DOMAIN by_column : StrictlyIncreasing(by_column[column])

\* ------------------------------------------------------------------------
\* Properties of the date, name, phone and account-status rules
\* ------------------------------------------------------------------------

\* the verdict of the column's pass on position i is in: the pass is running
\* and has gone past i, or the run has returned
Settled(i, column) == (Running(column) /\ i < idx) \/ RunReturned

DateFields == {"date_of_birth", "created_date"} \cap df.columns

\* the value reads invalid_date once trimmed and lower-cased
IsSentinel(v) == Present(v) /\ Lower(Strip(Str(v))) = invalid_date

SentinelIssue == Issue("'invalid_date' (invalid date value)", PyStr(invalid_date))

Date_1990_01_15 == PyStr(<<"1", "9", "9", "0", "/", "0", "1", "/", "1", "5">>)

NameFields == {"first_name", "last_name"} \cap df.columns

\* the messages of a Failure's issues, in their order
Messages(k) == [n \in 1..Len(failures[k].issues) |-> failures[k].issues[n].msg]

\* the name consists of letters, spaces and hyphens only
OnlyNameChars(name) ==
    \A n \in 1..Len(name) : IsLetter(name[n]) \/ name[n] \in {" ", "-"}

\* the issues a non-empty name is to carry: the length issue if the length
\* bound is violated, then the alphabetic issue if a character is not allowed
ExpectedNameMessages(name) ==
    (IF Len(name) < NameMinLen THEN <<"too short, min 2 chars">>
     ELSE IF Len(name) > NameMaxLen THEN <<"too long, max 50 chars">>
     ELSE <<>>)
    \o (IF OnlyNameChars(name) THEN <<>> ELSE <<"should be alphabetic">>)

\* C17 (as claimed): a non-empty name has all its violated conditions in one
\* Failure, in the declared order: the length issue iff the trimmed length is below 2 or
\* above 50, the alphabetic issue iff some character is no letter, space or
\* hyphen, the length issue first when both are there; no violated condition
\* means no Failure
C17_NameIssuesInOrder ==
    \A column \in NameFields : \A i \in Positions :
        LET v == df.rows[i + 1][column]
        IN  Present(v) =>
              /\ \A k \in FailuresAt(i, column) :
                    /\ Messages(k) = ExpectedNameMessages(Strip(Str(v)))
                    /\ Messages(k) # <<>>
              /\ (Settled(i, column) /\ FailuresAt(i, column) = {}) =>
                    ExpectedNameMessages(Strip(Str(v))) = <<>>


\* what is left of the text once every non-digit character is removed
DigitsLeft(text) == SelectSeq(text, IsDigit)

Phone_555_123_4567 ==
    PyStr(<<"(", "5", "5", "5", ")", " ", "1", "2", "3", "-", "4", "5", "6", "7">>)

Phone_555_123_456 == PyStr(<<"5", "5", "5", "-", "1", "2", "3", "-", "4", "5", "6">>)

\* C18: whenever the verdict on a phone is in, a non-empty phone has no
\* Failure if and only if exactly 10 digits are left once the non-digit
\* characters are removed; otherwise its Failure has the single issue "should
\* have 10 digits" with the number of digits found
C18_PhoneTenDigits ==
    ("phone" \in df.columns) =>
        \A i \in Positions :
            Settled(i, "phone") =>
                LET v == df.rows[i + 1]["phone"]
                IN  /\ \A k \in FailuresAt(i, "phone") :
                          Present(v) =>
                              /\ Len(DigitsLeft(Strip(Str(v)))) # PhoneDigits
                              /\ failures[k].issues =
                                    <<[msg   |-> "should have 10 digits",
                                       arg   |-> PyStr(Strip(Str(v))),
                                       found |-> Len(DigitsLeft(Strip(Str(v))))]>>
                    /\ FailuresAt(i, "phone") = {} =>
                          (Present(v) /\ Len(DigitsLeft(Strip(Str(v)))) = PhoneDigits)

\* C18 witness: the phone pass is over; "(555) 123-4567" has no Failure and
\* "555-123-456" has the issue with 9 digits found
C18_Witness ==
    /\ "phone" \in df.columns
    /\ \E i, j \in Positions :
          /\ Settled(i, "phone") /\ Settled(j, "phone")
          /\ df.rows[i + 1]["phone"] = Phone_555_123_4567
          /\ FailuresAt(i, "phone") = {}
          /\ df.rows[j + 1]["phone"] = Phone_555_123_456
          /\ \E k \in FailuresAt(j, "phone") :
                Len(failures[k].issues) = 1 /\ failures[k].issues[1].found = 9

\* the value is a case-insensitive member of {active, inactive, suspended}
IsValidStatus(v) == Present(v) /\ Lower(Strip(Str(v))) \in valid_statuses

\* C19 (as claimed): a status that is a case-insensitive member of the valid
\* set is accepted wherever the policy is applied: validate_account_status
\* finds no issue in it and the classifier's report holds no
\* categorical-validity issue for its record, so it adds nothing to medium
C19_SameStatusPolicy ==
    (ReportDone /\ "account_status" \in df.columns) =>
        \A i \in Positions :
            IsValidStatus(df.rows[i + 1]["account_status"]) =>
                /\ account_status_issues(df.rows[i + 1]["account_status"]) = <<>>
                /\ \A k \in 1..Len(categorical_issues) :
                      categorical_issues[k].row # i + RowOffset

\* ------------------------------------------------------------------------
\* The order of the passes
\* ------------------------------------------------------------------------

\* the issues the rule of the column reports for the record at position i,
\* whatever ran before: those of validate_customer_id depend on the
\* identifiers of the earlier positions only
IssuesAt(i, column) ==
    LET v == df.rows[i + 1][column]
    IN  CASE column = "customer_id" ->
                PositiveIntegerCheck(v).issues
                \o UniquenessCheck(v, {IdAt(j) : j \in {n \in 0..(i - 1) : NotNa(IdAt(n))}})
          [] column \in {"first_name", "last_name"} -> name_issues(v)
          [] column = "email" -> email_issues(v)
          [] column = "phone" -> phone_issues(v)
          [] column \in {"date_of_birth", "created_date"} -> date_issues(v)
          [] column = "address" -> address_issues(v)
          [] column = "income" -> income_issues(v)
          [] column = "account_status" -> account_status_issues(v)

\* the Failures of the column as a run in the order of Fields leaves them: one
\* for every position with an issue, in record order
InOrderFailures(column) ==
    LET hits == SelectSeq([n \in 1..len_df |-> n - 1], LAMBDA i : IssuesAt(i, column) # <<>>)
    IN  [k \in 1..Len(hits) |->
            [row |-> hits[k] + RowOffset, column |-> column, issues |-> IssuesAt(hits[k], column)]]

\* C20: whatever the order of the ten validate_* calls, a run that returns
\* leaves the passed_rows and the per-field Failure lists of the run in the
\* order of Fields
C20_PassOrderIndependent ==
    (RunReturned /\ runs = 1) =>
        /\ passed_rows = {i \in Positions : \A column \in FieldSet : IssuesAt(i, column) = <<>>}
        /\ \A column \in FieldSet :
              Get(get_failures_by_column(failures), column) = InOrderFailures(column)

\* C20 witness: a run has returned whose passes ran out of order (the income
\* Failure of a record stands before its customer_id Failure, and a
\* created_date Failure before an income Failure)
C20_Witness ==
    /\ RunReturned
    /\ \E a, b \in 1..Len(failures) :
          /\ a < b
          /\ failures[a].column = "income" /\ failures[b].column = "customer_id"
          /\ failures[a].row = failures[b].row
    /\ \E a, b \in 1..Len(failures) :
          a < b /\ failures[a].column = "created_date" /\ failures[b].column = "income"

\* ------------------------------------------------------------------------
\* What a step may change
\* ------------------------------------------------------------------------

IsPrefix(a, b) == Len(a) <= Len(b) /\ SubSeq(b, 1, Len(a)) = a

\* a step of a run: the call of run_all_validations or an iteration of a pass
RunStep == todo # <<>> \/ todo' # <<>>

\* C21: across every step of a run the failures list of the earlier state is
\* a prefix of the list of the later state: a Failure, once appended, keeps
\* its row, field and issues and is never removed, in a repeated run too
C21_FailuresAppendOnly == [][RunStep => IsPrefix(failures, failures')]_vars

\* C21 witness: a second run on the validator is under way and has appended
\* behind the Failures of the first
C21_Witness ==
    /\ runs = 2
    /\ todo # <<>>
    /\ Len(vresults) = 1
    /\ Len(vresults[1].failures) >= 2
    /\ Len(failures) > Len(vresults[1].failures)

\* the step appends a Failure: add_failure was called, for this position
Added == Len(failures') = Len(failures) + 1

AddedPosition == failures'[Len(failures')].row - RowOffset

\* C22: exclusion from passed_rows is idempotent and permanent. A step that
\* adds a Failure for a record already out of passed_rows leaves passed_rows as
\* it is and raises nothing; on the steps of a run passed_rows never gains a
\* member; passed_rows changes only by losing the record of the Failure that
\* the step adds; and no step changes the records of the dataset
C22_ExclusionPermanent ==
    [][ /\ df' = df
        /\ RunStep =>
              /\ passed_rows' \subseteq passed_rows
              /\ (Added /\ AddedPosition \notin passed_rows) =>
                    (passed_rows' = passed_rows /\ raised' = NoException)
              /\ passed_rows' # passed_rows =>
                    (Added /\ passed_rows' = passed_rows \ {AddedPosition})
      ]_vars

\* C22 witness: the latest Failure is for a record that had a Failure already
\* and stays out of passed_rows, while another record is still in it
C22_Witness ==
    /\ Len(failures) >= 2
    /\ \E k \in 1..(Len(failures) - 1) : failures[k].row = failures[Len(failures)].row
    /\ (failures[Len(failures)].row - RowOffset) \notin passed_rows
    /\ passed_rows # {}

====
